---------------------------- MODULE Spec2Model ----------------------------
(***************************************************************************)
(* A model of gpxplotter's GPX track-processing pipeline                   *)
(* (gpxplotter/gpxread.py and gpxplotter/common.py).                       *)
(*                                                                         *)
(* One raw track segment (the <trkpt> elements of one <trkseg>) is read by *)
(* read_segment and then extended with derived fields by process_segment,  *)
(* as read_gpx_file does for every segment of a file (Spec, SpecHr).  The  *)
(* generator read_gpx_file itself, resumed once per track of a file, is    *)
(* SpecReader.  find_regions is called on arrays of its own in             *)
(* SpecRegions, create_folium_map (gpxplotter/folium_map.py) on keyword    *)
(* arguments in SpecMap, and SpecRender draws a processed segment with     *)
(* plot_line, plot_filled (gpxplotter/mplplotting.py) and                  *)
(* add_segment_to_map.                                                     *)
(*                                                                         *)
(* Numbers.  The program computes with Python ints and IEEE doubles.  The  *)
(* model keeps integers: latitudes and longitudes in thousandths of a      *)
(* degree, elevations in metres, times in seconds, heart rates in bpm.     *)
(* Quotients are kept exact as records [num, den]; a den of 0 stands for   *)
(* numpy's nan/inf result of a division by zero.                           *)
(***************************************************************************)
EXTENDS Integers, Sequences, FiniteSets, TLC

VARIABLES
    raw,             \* the <trkpt> elements of the segment being read
    max_heart_rate,  \* the max_heart_rate argument of read_gpx_file
    pc,              \* "raw" -> "assembled" -> "processed", or "raised"
    segment,         \* the segment dict (a function from keys to values)
    exc,             \* the exception that left the pipeline, if any
    warned,          \* the warnings issued with warnings.warn
    lib,             \* what vincenty, the spline and k-means did when called
    gpx,             \* the <trk> elements of the file read_gpx_file reads
    yielded,         \* the track records read_gpx_file has yielded
    gen,             \* the generator: "none" (not in use), "created" (its
                     \* body has not begun), "suspended" (at the yield),
                     \* "finished" (StopIteration), "raised", or "closed"
                     \* (StopIteration after it raised)
    kwargs,          \* the keyword arguments of create_folium_map
    the_map,         \* the folium map a map function works on or returned
    figure,          \* the figure a plot function made, or None
    hr_zone,         \* the argument yval of find_regions
    new_regions      \* the list find_regions returned

\* The variables of the functions that draw, and of find_regions called on
\* its own.
drawVars == <<kwargs, the_map, figure, hr_zone, new_regions>>

vars == <<raw, max_heart_rate, pc, segment, exc, warned, lib, gpx, yielded, gen,
          drawVars>>

-----------------------------------------------------------------------------
(* Bounds of the model. *)

\* Longest segment of the general specification Spec.
MaxPts == 5

\* Longest segment of the heart-rate specification SpecHr.
MaxHrPts == 3

\* Most tracks in a file of the reader specification SpecReader.
MaxTracks == 2

-----------------------------------------------------------------------------
(* Small helpers. *)

Abs(x) == IF x < 0 THEN -x ELSE x

Last(s) == s[Len(s)]

\* All sequences over S of length 0..n.
SeqsUpTo(S, n) == UNION {[1..k -> S] : k \in 0..n}

\* The empty Python dict.
EmptyDict == [k \in {} |-> 0]

\* d[k] = v on a dict d (adds the key when absent).
SetItem(d, k, v) == (k :> v) @@ d

NoExc == [type |-> "none", site |-> "none"]

Raise(type, site) == [type |-> type, site |-> site]

\* No folium map: the name the_map is not bound to an object.
NoMap == [built |-> FALSE, kwargs |-> EmptyDict, children |-> <<>>]

\* No figure: the None a plot function returns for fig and ax1.
NoFigure == [made |-> FALSE]

\* Nothing has been drawn and find_regions has not been called on its own.
NotDrawing ==
    /\ kwargs = EmptyDict
    /\ the_map = NoMap
    /\ figure = NoFigure
    /\ hr_zone = <<>>
    /\ new_regions = <<>>

-----------------------------------------------------------------------------
(* The XML input.  A text (an attribute value or the data of a child node) *)
(* is abstracted to the kind of literal it holds and its value:            *)
(*   "int"   an integer literal,        accepted by int and float          *)
(*   "float" a literal with a fraction, accepted by float only             *)
(*   "date"  a timestamp,               accepted by dateutil.parser.parse  *)
(*   "junk"  anything else, including the '' that getAttribute returns for *)
(*           a missing attribute.                                          *)
(* An optional field of a point is the first child element with the tag:   *)
(* absent, or present with the texts of its child nodes.                   *)

Text(kind, val) == [kind |-> kind, val |-> val]

Junk == Text("junk", 0)

NoElement == [elem |-> FALSE, nodes |-> <<>>]

Element(nodes) == [elem |-> TRUE, nodes |-> nodes]

\* EXTRACT plus the 'ele' lookup of get_point_data: tag order and formatter.
EXTRACT ==
    << [key |-> "elevation", formatter |-> "float"],
       [key |-> "time",      formatter |-> "date"],
       [key |-> "temp",      formatter |-> "float"],
       [key |-> "hr",        formatter |-> "int"],
       [key |-> "cad",       formatter |-> "float"] >>

\* float(x), int(x), dateutil.parser.parse(x): does the conversion succeed?
Converts(formatter, text) ==
    CASE formatter = "float" -> text.kind \in {"int", "float"}
      [] formatter = "int"   -> text.kind = "int"
      [] formatter = "date"  -> text.kind = "date"

\* extract_data: None when the tag is absent, else the converted child nodes;
\* a conversion that fails raises ValueError.
extract_data(point, key, formatter) ==
    LET fld == point[key] IN
    IF ~fld.elem
    THEN [raised |-> FALSE, none |-> TRUE, value |-> <<>>]
    ELSE IF \E i \in 1..Len(fld.nodes) : ~Converts(formatter, fld.nodes[i])
         THEN [raised |-> TRUE, none |-> FALSE, value |-> <<>>]
         ELSE [raised |-> FALSE, none |-> FALSE,
               value |-> [i \in 1..Len(fld.nodes) |-> fld.nodes[i].val]]

RECURSIVE ExtractFields(_, _, _)
\* The 'ele' lookup and the loop over EXTRACT of get_point_data, from entry i.
ExtractFields(point, i, data) ==
    IF i > Len(EXTRACT) THEN [raised |-> FALSE, data |-> data]
    ELSE LET e == EXTRACT[i]
             r == extract_data(point, e.key, e.formatter)
         IN  IF r.raised THEN [raised |-> TRUE, data |-> data]
             ELSE ExtractFields(point, i + 1,
                      IF r.none THEN data ELSE SetItem(data, e.key, r.value))

\* get_point_data: float() of the lat and lon attributes, then the fields.
get_point_data(point) ==
    IF ~Converts("float", point.lat) \/ ~Converts("float", point.lon)
    THEN [raised |-> TRUE, data |-> EmptyDict]
    ELSE ExtractFields(point, 1,
             [lat |-> point.lat.val, lon |-> point.lon.val])

\* The inner loop of read_segment: every key of point_data is appended to
\* (lat, lon: floats) or extends (the lists of the other keys) data[key].
Accumulate(data, point_data) ==
    [k \in DOMAIN data \cup DOMAIN point_data |->
        (IF k \in DOMAIN data THEN data[k] ELSE <<>>) \o
        (IF k \notin DOMAIN point_data THEN <<>>
         ELSE IF k \in {"lat", "lon"} THEN <<point_data[k]>>
         ELSE point_data[k])]

RECURSIVE ReadPoints(_, _)
\* The loop of read_segment over the points.  The guard
\* `any([i is None for i in data])` looks at the keys of data, which are
\* strings, so it never skips a point; an exception of get_point_data is not
\* caught.
ReadPoints(points, data) ==
    IF points = <<>> THEN [raised |-> FALSE, data |-> data]
    ELSE LET pd == get_point_data(Head(points)) IN
         IF pd.raised THEN [raised |-> TRUE, data |-> data]
         ELSE ReadPoints(Tail(points), Accumulate(data, pd.data))

\* read_segment: the dict of parallel arrays, or the ValueError.
read_segment(points) == ReadPoints(points, EmptyDict)

-----------------------------------------------------------------------------
(* gpxplotter/common.py *)

\* An exact quotient num/den (a Python float in the program).
Q(num, den) == [num |-> num, den |-> den]

\* HR_LIMITS, in tenths: (0.5, 0.6), (0.6, 0.7), ..., (0.9, 1.0).
HR_LIMITS == << <<5, 6>>, <<6, 7>>, <<7, 8>>, <<8, 9>>, <<9, 10>> >>

\* heart_rate_zone_limits that ignores its argument and uses the default 187.
heart_rate_zone_limits_default(max_hr) ==
    [i \in 1..Len(HR_LIMITS) |->
        <<187 * HR_LIMITS[i][1], 187 * HR_LIMITS[i][2]>>]

\* heart_rate_zone_limits: the zone limits in tenths of a beat per minute
\* (max_heart_rate * 0.5 is kept as max_heart_rate * 5).
heart_rate_zone_limits(max_hr) ==
    [i \in 1..Len(HR_LIMITS) |->
        <<max_hr * HR_LIMITS[i][1], max_hr * HR_LIMITS[i][2]>>]

\* Digitize with right=True: the number of bins b with b < x.
Digitize_right(x, bins) == Cardinality({i \in 1..Len(bins) : bins[i] < x})

\* np.digitize(x, bins, right=False) for increasing bins, x and bins in the
\* same unit: the number of bins b with b <= x.
Digitize(x, bins) == Cardinality({i \in 1..Len(bins) : bins[i] <= x})

RECURSIVE RegionBorders(_, _, _, _)
\* The first loop of find_regions from 0-based index i: a border [i, region_y]
\* is appended when yval[i] differs from the value of the running region.
\* region_y is None exactly before the first element is seen.
RegionBorders(yval, i, region_y, regions) ==
    IF i >= Len(yval) THEN [regions |-> regions, region_y |-> region_y]
    ELSE LET ypos == yval[i + 1]
             ry   == IF i = 0 THEN ypos ELSE region_y
         IN  IF ypos # ry
             THEN RegionBorders(yval, i + 1, ypos, Append(regions, <<i, ry>>))
             ELSE RegionBorders(yval, i + 1, ry, regions)

\* find_regions without lines 98-100: the run that is open when the array
\* ends is not added.
find_regions_unclosed(yval) ==
    LET scan    == RegionBorders(yval, 0, 0, <<>>)
        regions == scan.regions
    IN  [i \in 1..Len(regions) |->
            IF i = 1 THEN <<0, regions[1][1], regions[1][2]>>
            ELSE <<regions[i - 1][1], regions[i][1], regions[i][2]>>]

\* find_regions without the `i == 0` case of the second loop: the first
\* region starts at its own border.
find_regions_nofirst(yval) ==
    LET scan    == RegionBorders(yval, 0, 0, <<>>)
        regions == IF Len(yval) = 0 THEN <<>>
                   ELSE Append(scan.regions, <<Len(yval) - 1, scan.region_y>>)
    IN  [i \in 1..Len(regions) |->
            IF i = 1 THEN <<regions[1][1], regions[1][1], regions[1][2]>>
            ELSE <<regions[i - 1][1], regions[i][1], regions[i][2]>>]

\* find_regions: the borders, the closing border [last index, region_y], and
\* the second loop that turns border i into [previous border, border, value].
\* Indices are the program's 0-based indices.
find_regions(yval) ==
    LET scan    == RegionBorders(yval, 0, 0, <<>>)
        regions == IF Len(yval) = 0 THEN <<>>
                   ELSE Append(scan.regions, <<Len(yval) - 1, scan.region_y>>)
    IN  [i \in 1..Len(regions) |->
            IF i = 1 THEN <<0, regions[1][1], regions[1][2]>>
            ELSE <<regions[i - 1][1], regions[i][1], regions[i][2]>>]

\* get_limits_txt: the integer parts of the limits shown in the zone texts.
get_limits_txt(limits) ==
    [z \in 0..5 |->
        CASE z = 0 -> <<limits[1][1] \div 10>>
          [] z = 5 -> <<limits[4][2] \div 10>>
          [] OTHER -> <<limits[z][1] \div 10, limits[z][2] \div 10>>]

\* The loop body with the fraction taken of the right limit instead of the
\* width of the zone: zone + (hrate - left) / right.
ZoneFloat_unscaled(hrate, zone, bins, max_hr) ==
    LET left  == IF zone = 0 THEN 0
                 ELSE IF zone = Len(bins) THEN bins[Len(bins)]
                 ELSE bins[zone]
        right == IF zone = 0 THEN bins[1]
                 ELSE IF zone = Len(bins) THEN max_hr * 10
                 ELSE bins[zone + 1]
    IN  Q(zone * right + (hrate * 10 - left), right)

\* The loop body of update_hr_zones: zone + (hrate - left) / (right - left).
ZoneFloat(hrate, zone, bins, max_hr) ==
    LET left  == IF zone = 0 THEN 0
                 ELSE IF zone = Len(bins) THEN bins[Len(bins)]
                 ELSE bins[zone]
        right == IF zone = 0 THEN bins[1]
                 ELSE IF zone = Len(bins) THEN max_hr * 10
                 ELSE bins[zone + 1]
    IN  Q(zone * (right - left) + (hrate * 10 - left), right - left)

\* update_hr_zones: the keys added to a segment that has 'hr'.
update_hr_zones(seg, max_hr) ==
    IF "hr" \notin DOMAIN seg THEN seg
    ELSE LET limits == heart_rate_zone_limits(max_hr)
             bins   == [i \in 1..Len(limits) |-> limits[i][1]]
             hr     == seg["hr"]
             zone   == [i \in 1..Len(hr) |-> Digitize(hr[i] * 10, bins)]
         IN  ("hr-zone" :> zone)
             @@ ("hr-zone-float" :>
                   [i \in 1..Len(hr) |-> ZoneFloat(hr[i], zone[i], bins, max_hr)])
             @@ ("hr-zone-frac" :> [i \in 1..Len(hr) |-> Q(hr[i], max_hr)])
             @@ ("hr-regions" :> find_regions(zone))
             @@ ("zone_txt" :> get_limits_txt(limits))
             @@ seg

\* A velocity sample: a number or nan.
F(v) == [nan |-> FALSE, val |-> v]

NaN == [nan |-> TRUE, val |-> 0]

\* n_clusters, the default of cluster_velocities.
N_CLUSTERS == 5

\* The distinct values of a sequence of numbers, ascending.
RECURSIVE SortedSet(_)
SortedSet(S) ==
    IF S = {} THEN <<>>
    ELSE LET m == CHOOSE x \in S : \A y \in S : x <= y
         IN  <<m>> \o SortedSet(S \ {m})

\* What KMeans(n_clusters, init='k-means++', n_init=10).fit_predict can
\* return (scikit-learn, outside the repository): ValueError when there are
\* fewer samples than clusters; otherwise labels and cluster centers, the
\* cluster ids being arbitrary.  The model offers the fits that give the
\* j-th smallest distinct value the id j, or the id n_clusters - 1 - j; a
\* cluster left without samples sits on the largest sample.
KMeansFits(vel, n_clusters) ==
    IF Len(vel) < n_clusters THEN {[raises |-> TRUE]}
    ELSE LET vals == SortedSet({vel[i].val : i \in 1..Len(vel)})
             Pos(v) == CHOOSE j \in 1..Len(vals) : vals[j] = v
             Fit(down) ==
                 LET id(j) == IF down THEN n_clusters - j ELSE j - 1
                 IN  [raises  |-> FALSE,
                      labels  |-> [i \in 1..Len(vel) |-> id(Pos(vel[i].val))],
                      centers |-> [c \in 0..(n_clusters - 1) |->
                          IF \E j \in 1..Len(vals) : id(j) = c
                          THEN vals[CHOOSE j \in 1..Len(vals) : id(j) = c]
                          ELSE vals[Len(vals)]]]
         IN  {Fit(FALSE), Fit(TRUE)}

\* idx.index(c) for idx = list(np.argsort(centers)): the number of centers
\* sorted before center c (ties keep their order).
SortedIndex(centers, c) ==
    Cardinality({d \in DOMAIN centers :
        centers[d] < centers[c] \/ (centers[d] = centers[c] /\ d < c)})

\* cluster_velocities without the np.isnan test of lines 189-191: the
\* velocities go to KMeans as they are.
cluster_velocities_nantest(velocities, km) ==
    IF km.raises
    THEN [raised |-> TRUE, none |-> FALSE, levels |-> <<>>]
    ELSE [raised |-> FALSE, none |-> FALSE,
          levels |-> [i \in 1..Len(velocities) |->
                         SortedIndex(km.centers, km.labels[i])]]

\* cluster_velocities that returns the labels of KMeans as they are.
cluster_velocities_unsorted(velocities, km) ==
    IF \E i \in 1..Len(velocities) : velocities[i].nan
    THEN [raised |-> FALSE, none |-> TRUE, levels |-> <<>>]
    ELSE IF km.raises
    THEN [raised |-> TRUE, none |-> FALSE, levels |-> <<>>]
    ELSE [raised |-> FALSE, none |-> FALSE, levels |-> km.labels]

\* cluster_velocities with the outcome km of KMeans: None (with a warning)
\* when a velocity is nan, the ValueError of KMeans, or the levels.
cluster_velocities(velocities, km) ==
    IF \E i \in 1..Len(velocities) : velocities[i].nan
    THEN [raised |-> FALSE, none |-> TRUE, levels |-> <<>>]
    ELSE IF km.raises
    THEN [raised |-> TRUE, none |-> FALSE, levels |-> <<>>]
    ELSE [raised |-> FALSE, none |-> FALSE,
          levels |-> [i \in 1..Len(velocities) |->
                         SortedIndex(km.centers, km.labels[i])]]

-----------------------------------------------------------------------------
(* gpxplotter/gpxread.py: the derived metrics *)

\* Metres per thousandth of a degree of latitude along a meridian, the value
\* of lines 100-114 of vincenty on this scale, rounded to metres.
MetresPerStep == 111

\* 180 degrees in thousandths of a degree: radians(180.0) is pi.
HalfTurn == 180000

\* maxitr and tol, the defaults of vincenty (tol = 10**-12 rad is below the
\* resolution of the model).
MAXITR == 1000

TOL == 0

\* How far lambda is thrown off diff_long by one update for antipodal points
\* at 60 degrees of latitude: 0.00527 rad, in thousandths of a degree.
LambdaSwing == 302

\* The sign of sin(lambd), lines 69 and 76.  The double nearest to pi is
\* below pi, so that sin(radians(180.0)) > 0 and sin(radians(-180.0)) < 0.
SinSign(lambd) ==
    IF lambd = 0 THEN 0
    ELSE IF (0 < lambd /\ lambd <= HalfTurn) \/ lambd < -HalfTurn THEN 1
    ELSE -1

\* sin_alpha, line 76, to the resolution of the model, for points on one
\* meridian or on opposite meridians: it vanishes (it is below 10**-11) unless
\* the points are antipodal, where cos1 * cos2 * sin(lambd) / sin_sigma is of
\* the order of cos1 and has the sign of sin(lambd).
SinAlpha(point1, point2, lambd) ==
    IF point1[2] # point2[2] /\ point1[1] + point2[1] = 0
    THEN SinSign(lambd) ELSE 0

\* sigma as the signed difference of the latitudes.
Sigma_signed(point1, point2, lambd) ==
    LET diff_long == point2[2] - point1[2] IN
    IF lambd = 0 THEN point2[1] - point1[1]
    ELSE HalfTurn - Abs(point1[1] + point2[1]) - Abs(lambd - diff_long) \div 2

\* sigma, line 75: the angle between the points, in thousandths of a degree.
Sigma(point1, point2, lambd) ==
    LET diff_long == point2[2] - point1[2] IN
    IF lambd = 0 THEN Abs(point2[1] - point1[1])
    ELSE HalfTurn - Abs(point1[1] + point2[1]) - Abs(lambd - diff_long) \div 2

\* sin_sigma == 0.0, line 72: the points coincide.
SinSigmaIsZero(point1, point2, lambd) ==
    lambd = 0 /\ point1[1] = point2[1]

\* One pass through the body of the loop of vincenty, lines 68-97, on the
\* state of the loop: how it stands ("loop": still iterating, "zero": left by
\* the return of line 73, "converged": left by the break of line 97), lambda
\* and the number of updates of lambda made so far.
VincentyStep(point1, point2, st) ==
    IF st.at # "loop" THEN st
    ELSE IF SinSigmaIsZero(point1, point2, st.lambd) THEN [st EXCEPT !.at = "zero"]
    ELSE LET diff_long == point2[2] - point1[2]
             lambd0    == st.lambd
             lambd     == diff_long
                          + SinAlpha(point1, point2, st.lambd) * LambdaSwing
             diff      == Abs(lambd0 - lambd)
         IN  [at      |-> IF diff <= TOL THEN "converged" ELSE "loop",
              lambd   |-> lambd,
              sigma   |-> Sigma(point1, point2, lambd0),
              updates |-> st.updates + 1]

RECURSIVE VincentyLoop(_, _, _, _)
\* `for _ in range(n)` of line 67 from the state st: n passes, the first half
\* of them and then the others.
VincentyLoop(point1, point2, st, n) ==
    IF n = 0 \/ st.at # "loop" THEN st
    ELSE IF n = 1 THEN VincentyStep(point1, point2, st)
    ELSE VincentyLoop(point1, point2,
             VincentyLoop(point1, point2, st, n \div 2), n - n \div 2)

\* vincenty without the test of lines 98-99: the distance is computed from
\* the last iterate whether or not the iteration converged.
vincenty_unchecked(point1, point2) ==
    LET st == VincentyLoop(point1, point2,
                  [at |-> "loop", lambd |-> point2[2] - point1[2],
                   sigma |-> 0, updates |-> 0],
                  MAXITR)
    IN  IF st.at = "zero"
        THEN [raised |-> FALSE, dist |-> 0,
              updates |-> st.updates, converged |-> FALSE]
        ELSE [raised |-> FALSE, dist |-> MetresPerStep * st.sigma,
              updates |-> st.updates, converged |-> st.at = "converged"]

\* vincenty on points <<lat, lon>> of one meridian and of the opposite
\* meridian: 0.0 at the first evaluation of sin_sigma for coincident points,
\* ValueError("Vincenty's formulae did not converge!") after maxitr
\* iterations for antipodal points, where lambda swings between two values,
\* and otherwise the length of the meridian arc between the points (over the
\* pole for points on opposite meridians), found with one update of lambda.
vincenty(point1, point2) ==
    LET st == VincentyLoop(point1, point2,
                  [at |-> "loop", lambd |-> point2[2] - point1[2],
                   sigma |-> 0, updates |-> 0],
                  MAXITR)
    IN  CASE st.at = "zero" ->
                [raised |-> FALSE, dist |-> 0,
                 updates |-> st.updates, converged |-> FALSE]
          [] st.at = "loop" ->
                [raised |-> TRUE, dist |-> 0,
                 updates |-> st.updates, converged |-> FALSE]
          [] st.at = "converged" ->
                [raised |-> FALSE, dist |-> MetresPerStep * st.sigma,
                 updates |-> st.updates, converged |-> TRUE]

RECURSIVE DistancesFrom_legs(_, _, _, _, _)
\* The loop of get_distances without `dist[-1] +`: the length of each leg.
DistancesFrom_legs(lat, lon, i, dist, calls) ==
    IF i > Len(lat) \/ i > Len(lon)
    THEN [raised |-> FALSE, dist |-> dist, calls |-> calls]
    ELSE IF i = 1 THEN DistancesFrom_legs(lat, lon, 2, <<0>>, calls)
    ELSE LET v == vincenty(<<lat[i], lon[i]>>, <<lat[i - 1], lon[i - 1]>>)
         IN  IF v.raised
             THEN [raised |-> TRUE, dist |-> dist, calls |-> Append(calls, v)]
             ELSE DistancesFrom_legs(lat, lon, i + 1,
                      Append(dist, v.dist), Append(calls, v))

RECURSIVE DistancesFrom(_, _, _, _, _)
\* The loop of get_distances from 1-based position i; calls collects what
\* the calls of vincenty did.
DistancesFrom(lat, lon, i, dist, calls) ==
    IF i > Len(lat) \/ i > Len(lon)
    THEN [raised |-> FALSE, dist |-> dist, calls |-> calls]
    ELSE IF i = 1 THEN DistancesFrom(lat, lon, 2, <<0>>, calls)
    ELSE LET v == vincenty(<<lat[i], lon[i]>>, <<lat[i - 1], lon[i - 1]>>)
         IN  IF v.raised
             THEN [raised |-> TRUE, dist |-> dist, calls |-> Append(calls, v)]
             ELSE DistancesFrom(lat, lon, i + 1,
                      Append(dist, Last(dist) + v.dist), Append(calls, v))

\* get_distances: the cumulative distances, or the ValueError of vincenty.
get_distances(lat, lon) == DistancesFrom(lat, lon, 1, <<>>, <<>>)

\* The degree k of UnivariateSpline(time, distance, k=3).
SPLINE_K == 3

FitError == [raises |-> TRUE, deriv |-> <<>>]

\* The derivative values spline.derivative()(time) can hold in the model:
\* the first sample is negative (an overshoot), positive or nan, the others
\* are positive.
Derivatives(n) ==
    {[i \in 1..n |-> IF i = 1 THEN a ELSE F(2)] : a \in {F(-1), F(2), NaN}}

\* What UnivariateSpline(time, distance, k=3) and its derivative can do
\* (scipy, outside the repository): an exception when the arrays differ in
\* length or hold no more than k points, and otherwise either an exception
\* (time stamps that do not increase, ...) or the derivative at each time.
SplineFits(time, distance) ==
    IF Len(time) # Len(distance) \/ Len(time) <= SPLINE_K THEN {FitError}
    ELSE {FitError} \cup
         {[raises |-> FALSE, deriv |-> d] : d \in Derivatives(Len(time))}

\* approximate_velocity that stores the derivative as it is.
approximate_velocity_unclamped(distance, time, fit) ==
    IF fit.raises THEN [none |-> TRUE, vel |-> <<>>]
    ELSE [none |-> FALSE, vel |-> fit.deriv]

\* approximate_velocity whose except clause returns zeros instead of None.
approximate_velocity_zeros(distance, time, fit) ==
    IF fit.raises THEN [none |-> FALSE, vel |-> [i \in 1..Len(time) |-> F(0)]]
    ELSE [none |-> FALSE,
          vel  |-> [i \in 1..Len(fit.deriv) |->
                       IF ~fit.deriv[i].nan /\ fit.deriv[i].val < 0
                       THEN F(0) ELSE fit.deriv[i]]]

\* approximate_velocity with the outcome fit of the spline: None after a
\* warning when it raised, else the derivative with negatives set to 0.0.
approximate_velocity(distance, time, fit) ==
    IF fit.raises THEN [none |-> TRUE, vel |-> <<>>]
    ELSE [none |-> FALSE,
          vel  |-> [i \in 1..Len(fit.deriv) |->
                       IF ~fit.deriv[i].nan /\ fit.deriv[i].val < 0
                       THEN F(0) ELSE fit.deriv[i]]]

\* The state a function of the pipeline hands on: the segment dict, the
\* exception it raised (NoExc: none), the warnings, the library calls.
R(seg, e, w, l) == [seg |-> seg, exc |-> e, warned |-> w, lib |-> l]

\* Nothing called yet.  spline and kmeans: "none", "ok" or "raised"; deriv:
\* the derivative the spline returned; centers, labels: the fit of KMeans;
\* vincenty: what each call of vincenty did.
NoLib ==
    [spline |-> "none", kmeans |-> "none", deriv |-> <<>>,
     centers |-> <<>>, labels |-> <<>>, vincenty |-> <<>>]

\* pace computed by the division at every index.
Pace_divides(v) == Q(1000, 60 * v.val)

\* pace of get_velocity: 1.0 / ((60. / 1000) * velocity) where velocity > 0,
\* and 0 elsewhere.
Pace(v) == IF ~v.nan /\ v.val > 0 THEN Q(1000, 60 * v.val) ELSE Q(0, 1)

\* get_velocity with the outcomes fit (spline) and km (KMeans).
get_velocity(r, fit, km) ==
    LET seg      == r.seg
        velocity == approximate_velocity(seg["distance"], seg["elapsed-time"], fit)
        lib1     == [r.lib EXCEPT !.spline = IF fit.raises THEN "raised" ELSE "ok",
                                  !.deriv = fit.deriv]
    IN  IF velocity.none
        THEN R(seg, NoExc, r.warned \cup {"Estimating velocities failed"}, lib1)
        ELSE LET vel    == velocity.vel
                 seg1   == ("velocity" :> vel)
                           @@ ("Velocity / km/h" :>
                                 [i \in 1..Len(vel) |->
                                     IF vel[i].nan THEN NaN
                                     ELSE Q(36 * vel[i].val, 10)])
                           @@ ("pace" :> [i \in 1..Len(vel) |-> Pace(vel[i])])
                           @@ seg
                 levels == cluster_velocities(vel, km)
             IN  IF levels.none
                 THEN R(seg1, NoExc,
                        r.warned \cup {"Some velocities are NaN, skipping clustering"},
                        lib1)
                 ELSE IF levels.raised
                 THEN R(seg1, Raise("ValueError", "KMeans"), r.warned,
                        [lib1 EXCEPT !.kmeans = "raised"])
                 ELSE R(SetItem(seg1, "velocity-level", levels.levels), NoExc,
                        r.warned,
                        [lib1 EXCEPT !.kmeans = "ok", !.centers = km.centers,
                                     !.labels = km.labels])

\* np.trapz with the left value of each interval in place of the mean of its
\* two ends.
Trapz2_left(y, x) ==
    LET d    == [i \in 1..(Len(x) - 1) |-> x[i + 1] - x[i]]
        RECURSIVE Sum(_, _)
        Sum(f, n) == IF n = 0 THEN 0 ELSE f[n] + Sum(f, n - 1)
    IN  IF Len(d) = Len(y) - 1
        THEN [raised |-> FALSE,
              twice |-> Sum([i \in 1..Len(d) |-> d[i] * 2 * y[i]], Len(d))]
        ELSE [raised |-> TRUE, twice |-> 0]

\* np.trapz(y, x): sum(diff(x) * (y[1:] + y[:-1]) / 2.0).  The two factors
\* must broadcast: equal lengths, or one of them of length 1.  The result is
\* twice the integral (the division by 2.0 is left to the caller).
Trapz2(y, x) ==
    LET d    == [i \in 1..(Len(x) - 1) |-> x[i + 1] - x[i]]
        ysum == [i \in 1..(Len(y) - 1) |-> y[i + 1] + y[i]]
        RECURSIVE Sum(_, _)
        Sum(f, n) == IF n = 0 THEN 0 ELSE f[n] + Sum(f, n - 1)
    IN  IF Len(d) = Len(ysum)
        THEN [raised |-> FALSE,
              twice |-> Sum([i \in 1..Len(d) |-> d[i] * ysum[i]], Len(d))]
        ELSE IF Len(d) = 1
        THEN [raised |-> FALSE,
              twice |-> Sum([i \in 1..Len(ysum) |-> d[1] * ysum[i]], Len(ysum))]
        ELSE IF Len(ysum) = 1
        THEN [raised |-> FALSE,
              twice |-> Sum([i \in 1..Len(d) |-> d[i] * ysum[1]], Len(d))]
        ELSE [raised |-> TRUE, twice |-> 0]

\* The sum of all the differences, whatever their sign.
ElevationSum_all(elevation, sign) ==
    LET RECURSIVE Sum(_)
        Sum(i) == IF i >= Len(elevation) THEN 0
                  ELSE (elevation[i + 1] - elevation[i]) + Sum(i + 1)
    IN  Sum(1)

\* The sums taken of the sizes of the differences: the descent comes out as
\* a positive number of metres.
ElevationSum_abs(elevation, sign) ==
    LET RECURSIVE Sum(_)
        Sum(i) == IF i >= Len(elevation) THEN 0
                  ELSE LET diff == elevation[i + 1] - elevation[i]
                       IN  (IF sign * diff > 0 THEN Abs(diff) ELSE 0) + Sum(i + 1)
    IN  Sum(1)

\* sum(ele_diff[np.where(ele_diff > 0)]) for sign = 1, and of the negative
\* differences for sign = -1, with ele_diff = np.diff(elevation).
ElevationSum(elevation, sign) ==
    LET RECURSIVE Sum(_)
        Sum(i) == IF i >= Len(elevation) THEN 0
                  ELSE LET diff == elevation[i + 1] - elevation[i]
                       IN  (IF sign * diff > 0 THEN diff ELSE 0) + Sum(i + 1)
    IN  Sum(1)

\* process_segment, lines 299-306: latlon and elapsed-time.
ProcessTime(r) ==
    LET seg == r.seg IN
    IF "lat" \notin DOMAIN seg \/ "lon" \notin DOMAIN seg
    THEN [r EXCEPT !.exc = Raise("KeyError", "segment['lat']")]
    ELSE LET seg1 == SetItem(seg, "latlon",
                        [i \in 1..Len(seg["lat"]) |-> <<seg["lat"][i], seg["lon"][i]>>])
         IN  IF "time" \notin DOMAIN seg THEN [r EXCEPT !.seg = seg1]
             ELSE IF Len(seg["time"]) = 0
             THEN [r EXCEPT !.seg = seg1,
                            !.exc = Raise("IndexError", "segment['time'][0]")]
             ELSE [r EXCEPT !.seg = SetItem(seg1, "elapsed-time",
                       [i \in 1..Len(seg["time"]) |-> seg["time"][i] - seg["time"][1]])]

\* process_segment, lines 307-311: distance.
ProcessDistance(r) ==
    IF r.exc # NoExc THEN r
    ELSE LET d == get_distances(r.seg["lat"], r.seg["lon"]) IN
         IF d.raised
         THEN [r EXCEPT !.exc = Raise("ValueError", "vincenty"),
                        !.lib.vincenty = d.calls]
         ELSE [r EXCEPT !.lib.vincenty = d.calls,
                        !.seg =
                  ("distance" :> d.dist)
                  @@ ("Distance / km" :> [i \in 1..Len(d.dist) |-> Q(d.dist[i], 1000)])
                  @@ r.seg]

\* process_segment, lines 312-314: velocity.
ProcessVelocity(r, fit, km) ==
    IF r.exc # NoExc THEN r
    ELSE IF "distance" \in DOMAIN r.seg /\ "elapsed-time" \in DOMAIN r.seg
    THEN get_velocity(r, fit, km)
    ELSE r

\* process_segment, lines 315-324: the heart-rate metrics.
ProcessHr(r, max_hr) ==
    IF r.exc # NoExc \/ "hr" \notin DOMAIN r.seg THEN r
    ELSE LET seg1 == update_hr_zones(r.seg, max_hr) IN
         IF "elapsed-time" \notin DOMAIN seg1 THEN [r EXCEPT !.seg = seg1]
         ELSE LET et         == seg1["elapsed-time"]
                  delta_time == Last(et) - et[1]
                  integral   == Trapz2(seg1["hr"], et)
              IN  IF integral.raised
                  THEN [r EXCEPT !.seg = seg1,
                                 !.exc = Raise("ValueError", "np.trapz")]
                  ELSE [r EXCEPT !.seg = SetItem(seg1, "average-hr",
                                     Q(integral.twice, 2 * delta_time))]

\* The elevation metrics without the test `'elevation' in segment`: a
\* segment without elevations gets a climb and a descent of 0.
ProcessElevation_unguarded(r) ==
    IF r.exc # NoExc THEN r
    ELSE LET ele  == IF "elevation" \in DOMAIN r.seg THEN r.seg["elevation"]
                     ELSE <<>>
             seg1 == ("elevation-up" :> ElevationSum(ele, 1))
                     @@ ("elevation-down" :> ElevationSum(ele, -1))
                     @@ r.seg
             seg2 == IF "hr" \notin DOMAIN seg1 THEN seg1
                     ELSE SetItem(seg1, "heart rate", seg1["hr"])
         IN  [r EXCEPT !.seg = seg2]

\* process_segment, lines 325-332: the elevation metrics and the alias.
ProcessElevation(r) ==
    IF r.exc # NoExc THEN r
    ELSE LET seg1 == IF "elevation" \notin DOMAIN r.seg THEN r.seg
                     ELSE ("elevation-up" :> ElevationSum(r.seg["elevation"], 1))
                          @@ ("elevation-down" :> ElevationSum(r.seg["elevation"], -1))
                          @@ r.seg
             seg2 == IF "hr" \notin DOMAIN seg1 THEN seg1
                     ELSE SetItem(seg1, "heart rate", seg1["hr"])
         IN  [r EXCEPT !.seg = seg2]

\* process_segment with the outcomes fit and km of the library routines.
process_segment(seg, max_hr, fit, km) ==
    ProcessElevation(
        ProcessHr(
            ProcessVelocity(
                ProcessDistance(ProcessTime(R(seg, NoExc, {}, NoLib))),
                fit, km),
            max_hr))

-----------------------------------------------------------------------------
(* The inputs. *)

\* A <trkpt>: the lat and lon attributes and the optional child elements.
TrackPoint(lat, lon, ele, time, hr, cad) ==
    [lat |-> lat, lon |-> lon, elevation |-> ele, time |-> time,
     temp |-> NoElement, hr |-> hr, cad |-> cad]

\* A complete point recorded t seconds into the activity: the runner moves
\* north along the meridian 10.000 E from 60.000 N and downhill, the heart
\* rate rises.
BasePoint(t) ==
    TrackPoint(Text("float", 60000 + t \div 10), Text("float", 10000),
               Element(<<Text("float", 100 - t)>>),
               Element(<<Text("date", t)>>),
               Element(<<Text("int", 150 + 3 * t)>>),
               NoElement)

BasePoints == {BasePoint(0), BasePoint(10)}

\* The irregular points near the track: the lat attribute missing or not;
\* each optional element absent, empty (no child node) or holding a text its
\* formatter rejects.
NearPoints ==
    {TrackPoint(lat, Text("float", 10000), ele, time, hr, cad) :
        lat  \in {Text("float", 60001), Junk},
        ele  \in {NoElement, Element(<<>>), Element(<<Text("float", 95)>>)},
        time \in {NoElement, Element(<<Text("date", 10)>>)},
        hr   \in {NoElement, Element(<<Text("int", 120)>>),
                  Element(<<Text("float", 120)>>)},
        cad  \in {NoElement, Element(<<Text("float", 80)>>)}}

\* The points on the opposite meridian: the antipode of BasePoint(0) (and so
\* not of BasePoint(10)), bare or with elevation, time and heart rate.
FarPoints ==
    {TrackPoint(Text("float", -60000), Text("float", -170000), f[1], f[2], f[3],
                NoElement) :
        f   \in { <<NoElement, NoElement, NoElement>>,
                  <<Element(<<Text("float", 95)>>),
                    Element(<<Text("date", 10)>>),
                    Element(<<Text("int", 120)>>)>> }}

VariantPoints == NearPoints \cup FarPoints

\* The segments of Spec: up to MaxPts points, complete ones and one kind of
\* irregular point.
Segments ==
    UNION {SeqsUpTo(BasePoints \cup {v}, MaxPts) : v \in VariantPoints}

\* The heart rates and time stamps of SpecHr.
HrVals == {0, 100, 150, 180, 200}

TimeVals == {0, 10, 20}

\* A point of SpecHr: position and time as for BasePoint, any heart rate.
HrPoint(t, h) ==
    TrackPoint(Text("float", 60000 + t \div 10), Text("float", 10000),
               NoElement, Element(<<Text("date", t)>>),
               Element(<<Text("int", h)>>), NoElement)

HrSegments ==
    SeqsUpTo({HrPoint(t, h) : t \in TimeVals, h \in HrVals}, MaxHrPts)

-----------------------------------------------------------------------------
(* The state machine. *)

Start(segments, max_hrs) ==
    /\ raw \in segments
    /\ max_heart_rate \in max_hrs
    /\ pc = "raw"
    /\ segment = EmptyDict
    /\ exc = NoExc
    /\ warned = {}
    /\ lib = NoLib
    /\ gpx = <<>>
    /\ yielded = <<>>
    /\ gen = "none"
    /\ NotDrawing

Init == Start(Segments, {187})

InitHr == Start(HrSegments, {200})

\* read_gpx_file, line 359: read_segment on the raw segment.
ReadSegment ==
    /\ pc = "raw"
    /\ LET r == read_segment(raw) IN
       IF r.raised
       THEN /\ pc' = "raised"
            /\ exc' = Raise("ValueError", "get_point_data")
            /\ segment' = segment
       ELSE /\ pc' = "assembled"
            /\ exc' = exc
            /\ segment' = r.data
    /\ UNCHANGED <<raw, max_heart_rate, warned, lib, gpx, yielded, gen, drawVars>>

\* The outcomes the spline routine can have on this segment.
FitOutcomes(seg) ==
    LET pre == ProcessDistance(ProcessTime(R(seg, NoExc, {}, NoLib))) IN
    IF /\ pre.exc = NoExc
       /\ "distance" \in DOMAIN pre.seg
       /\ "elapsed-time" \in DOMAIN pre.seg
    THEN SplineFits(pre.seg["elapsed-time"], pre.seg["distance"])
    ELSE {FitError}

\* The outcomes KMeans can have on the velocities of this fit.
KMeansOutcomes(fit) ==
    LET velocity == approximate_velocity(<<>>, <<>>, fit) IN
    IF velocity.none \/ \E i \in 1..Len(velocity.vel) : velocity.vel[i].nan
    THEN {[raises |-> TRUE]}
    ELSE KMeansFits(velocity.vel, N_CLUSTERS)

\* read_gpx_file, lines 362-363: process_segment on the assembled segment.
ProcessSegment ==
    /\ pc = "assembled"
    /\ \E fit \in FitOutcomes(segment) :
       \E km \in KMeansOutcomes(fit) :
          LET r == process_segment(segment, max_heart_rate, fit, km) IN
          /\ segment' = r.seg
          /\ exc' = r.exc
          /\ warned' = r.warned
          /\ lib' = r.lib
          /\ pc' = IF r.exc = NoExc THEN "processed" ELSE "raised"
    /\ UNCHANGED <<raw, max_heart_rate, gpx, yielded, gen, drawVars>>

Next == ReadSegment \/ ProcessSegment

Spec == Init /\ [][Next]_vars

SpecHr == InitHr /\ [][Next]_vars

-----------------------------------------------------------------------------
(* read_gpx_file as a generator. *)

RECURSIVE ReadSegments(_, _)
\* The list comprehension of line 359: read_segment on every <trkseg> in
\* document order; the first exception ends it.
ReadSegments(raw_segments, done) ==
    IF raw_segments = <<>> THEN [raised |-> FALSE, segments |-> done]
    ELSE LET r == read_segment(Head(raw_segments)) IN
         IF r.raised THEN [raised |-> TRUE, segments |-> done]
         ELSE ReadSegments(Tail(raw_segments), Append(done, r.data))

RECURSIVE ProcessSegments(_, _, _, _)
\* The loop of lines 362-363 from 1-based position i: process_segment on
\* every segment of track_data['segments'], in place and in order, with any
\* outcome the library routines can have on it; the first exception ends it.
\* The result is the set of the possible outcomes.
ProcessSegments(segments, i, max_hr, w) ==
    IF i > Len(segments)
    THEN {[segments |-> segments, exc |-> NoExc, warned |-> w]}
    ELSE UNION {
        UNION {
            LET r == process_segment(segments[i], max_hr, fit, km) IN
            IF r.exc # NoExc
            THEN {[segments |-> [segments EXCEPT ![i] = r.seg],
                   exc |-> r.exc, warned |-> w \cup r.warned]}
            ELSE ProcessSegments([segments EXCEPT ![i] = r.seg], i + 1,
                                 max_hr, w \cup r.warned)
            : km \in KMeansOutcomes(fit)}
        : fit \in FitOutcomes(segments[i])}

\* The body of the loop over the tracks without lines 362-363: the segments
\* are yielded as read_segment returned them.
ReadTrack_unprocessed(track, max_hr) ==
    LET read == ReadSegments(track.trksegs, <<>>) IN
    IF read.raised
    THEN {[exc |-> Raise("ValueError", "get_point_data"), warned |-> {},
           track_data |-> EmptyDict]}
    ELSE {[exc |-> NoExc, warned |-> {},
           track_data |-> [name |-> track.name, type |-> track.type,
                           segments |-> read.segments]]}

\* The body of the loop over the tracks, lines 355-364: the possible
\* outcomes for one <trk>, each the track_data to yield or the exception.
ReadTrack(track, max_hr) ==
    LET read == ReadSegments(track.trksegs, <<>>) IN
    IF read.raised
    THEN {[exc |-> Raise("ValueError", "get_point_data"), warned |-> {},
           track_data |-> EmptyDict]}
    ELSE {[exc |-> out.exc, warned |-> out.warned,
           track_data |-> [name |-> track.name, type |-> track.type,
                           segments |-> out.segments]]
          : out \in ProcessSegments(read.segments, 1, max_hr, {})}

\* The <trkseg> elements of SpecReader: two complete points; one point with
\* nothing but its position; a point and its antipode.
ReaderSegments ==
    << <<BasePoint(0), BasePoint(10)>>,
       <<TrackPoint(Text("float", 60001), Text("float", 10000),
                    NoElement, NoElement, NoElement, NoElement)>>,
       <<BasePoint(0),
         TrackPoint(Text("float", -60000), Text("float", -170000),
                    NoElement, NoElement, NoElement, NoElement)>> >>

\* The <trk> elements of SpecReader: the texts of the <name> and <type>
\* elements and the <trkseg> elements, none, one or two of them.
ReaderTracks ==
    {[name |-> n, type |-> <<"running">>, trksegs |-> ss] :
        n  \in {<<"A">>, <<"B">>, <<>>},
        ss \in { <<>>,
                 <<ReaderSegments[1]>>,
                 <<ReaderSegments[1], ReaderSegments[2]>>,
                 <<ReaderSegments[2], ReaderSegments[1]>>,
                 <<ReaderSegments[2], ReaderSegments[3]>> }}

\* read_gpx_file(gpxfile, max_heart_rate) has been called: the generator
\* exists and has not run yet.
InitReader ==
    /\ gpx \in SeqsUpTo(ReaderTracks, MaxTracks)
    /\ max_heart_rate = 187
    /\ gen = "created"
    /\ yielded = <<>>
    /\ exc = NoExc
    /\ warned = {}
    /\ raw = <<>>
    /\ pc = "none"
    /\ segment = EmptyDict
    /\ lib = NoLib
    /\ NotDrawing

\* next() on the generator that lets an exception of a track go by: the
\* track is yielded as far as it got and the generator stays suspended.
NextTrack_resumes ==
    /\ gen \in {"created", "suspended"}
    /\ Len(yielded) < Len(gpx)
    /\ \E out \in ReadTrack(gpx[Len(yielded) + 1], max_heart_rate) :
          /\ warned' = warned \cup out.warned
          /\ exc' = out.exc
          /\ yielded' = Append(yielded, out.track_data)
          /\ gen' = "suspended"
    /\ UNCHANGED <<raw, max_heart_rate, pc, segment, lib, gpx, drawVars>>

\* next() on the generator while a <trk> is left: on the first call the
\* body begins and the file is parsed (line 352); then the body of the loop
\* up to the yield of line 364, or up to the exception that ends the
\* generator.
NextTrack ==
    /\ gen \in {"created", "suspended"}
    /\ Len(yielded) < Len(gpx)
    /\ \E out \in ReadTrack(gpx[Len(yielded) + 1], max_heart_rate) :
          /\ warned' = warned \cup out.warned
          /\ exc' = out.exc
          /\ IF out.exc = NoExc
             THEN /\ yielded' = Append(yielded, out.track_data)
                  /\ gen' = "suspended"
             ELSE /\ yielded' = yielded
                  /\ gen' = "raised"
    /\ UNCHANGED <<raw, max_heart_rate, pc, segment, lib, gpx, drawVars>>

\* next() on the generator after the last <trk>: the loop of line 354 ends,
\* the generator returns (StopIteration).
NextStop ==
    /\ gen \in {"created", "suspended"}
    /\ Len(yielded) = Len(gpx)
    /\ gen' = "finished"
    /\ UNCHANGED <<raw, max_heart_rate, pc, segment, exc, warned, lib, gpx,
                   yielded, drawVars>>

\* next() on the generator that has raised: a generator that let an
\* exception out is finished, the call gets StopIteration.
NextAfterRaise ==
    /\ gen = "raised"
    /\ gen' = "closed"
    /\ UNCHANGED <<raw, max_heart_rate, pc, segment, exc, warned, lib, gpx,
                   yielded, drawVars>>

NextReader == NextTrack \/ NextStop \/ NextAfterRaise

SpecReader == InitReader /\ [][NextReader]_vars

-----------------------------------------------------------------------------
(* find_regions called on its own. *)

\* The pipeline and the generator are not in use.
NotReading ==
    /\ raw = <<>>
    /\ max_heart_rate = 187
    /\ segment = EmptyDict
    /\ exc = NoExc
    /\ warned = {}
    /\ lib = NoLib
    /\ gpx = <<>>
    /\ yielded = <<>>
    /\ gen = "none"

\* Longest array of SpecRegions.
MaxZones == 5

\* The values in the arrays of SpecRegions: three of the zones 0..5.
ZoneVals == {0, 1, 5}

\* find_regions is about to be called on an array of zones.
InitRegions ==
    /\ hr_zone \in SeqsUpTo(ZoneVals, MaxZones)
    /\ new_regions = <<>>
    /\ pc = "call"
    /\ kwargs = EmptyDict /\ the_map = NoMap /\ figure = NoFigure
    /\ NotReading

\* find_regions(yval), lines 89-108, returns new_regions.
FindRegions ==
    /\ pc = "call"
    /\ new_regions' = find_regions(hr_zone)
    /\ pc' = "returned"
    /\ UNCHANGED <<raw, max_heart_rate, segment, exc, warned, lib, gpx, yielded,
                   gen, kwargs, the_map, figure, hr_zone>>

NextRegions == FindRegions

SpecRegions == InitRegions /\ [][NextRegions]_vars

-----------------------------------------------------------------------------
(* gpxplotter/folium_map.py: create_folium_map. *)

\* Python's None as the value of a keyword argument.
None == "None"

\* dict.get(key, default).
Get(d, key, default) == IF key \in DOMAIN d THEN d[key] ELSE default

\* TILES, lines 9-96: the keyword arguments of the TileLayer of each key,
\* of which the model keeps the name.
TILES ==
    ("kartverket_topo4" :> [name |-> "Kartverket (topo4)"])
    @@ ("kartverket_topo4graatone" :> [name |-> "Kartverket (topo4graatone)"])
    @@ ("opentopomap" :> [name |-> "OpenTopoMap"])
    @@ ("ersi.worldtopomap" :> [name |-> "Esri (WorldTopoMap)"])
    @@ ("esri_worldimagery" :> [name |-> "Esri (WorldImagery)"])
    @@ ("openstreetmap_humanitarian" :> [name |-> "Humanitarian"])
    @@ ("cyclosm" :> [name |-> "CyclOSM"])

\* _FOLIUM_TILES, line 99.
FOLIUM_TILES == {"openstreetmap", "stamenterrain"}

\* folium.Map(**kwargs) (folium, outside the repository): a map that keeps
\* its keyword arguments and has no child yet.
Map(kw) == [built |-> TRUE, kwargs |-> kw, children |-> <<>>]

\* folium.TileLayer(**options): the layer and its tile_name.
TileLayer(options) == [kind |-> "TileLayer", tile_name |-> options.name]

\* the_map.add_child(child, name=name).
add_child(m, child, name) ==
    [m EXCEPT !.children = Append(@, [child |-> child, name |-> name])]

\* create_folium_map(**kwargs), lines 125-138.  The name the_map is assigned
\* in three of the four branches; `return the_map` raises UnboundLocalError
\* in the fourth.
create_folium_map(kw) ==
    LET kw1   == SetItem(kw, "control_scale", Get(kw, "control_scale", TRUE))
        tiles == Get(kw1, "tiles", None)
    IN  IF tiles = None THEN [exc |-> NoExc, the_map |-> Map(kw1)]
        ELSE IF tiles \in FOLIUM_TILES THEN [exc |-> NoExc, the_map |-> Map(kw1)]
        ELSE IF tiles \in DOMAIN TILES
        THEN LET tile_layer == TileLayer(TILES[tiles])
                 kw2        == SetItem(kw1, "tiles", None)
             IN  [exc |-> NoExc,
                  the_map |-> add_child(Map(kw2), tile_layer, tile_layer.tile_name)]
        ELSE [exc |-> Raise("UnboundLocalError", "return the_map"),
              the_map |-> NoMap]

\* The tiles arguments of SpecMap: None, the names create_folium_map knows
\* and one more of the tile names of folium.Map.
TileArgs == {None} \cup FOLIUM_TILES \cup DOMAIN TILES \cup {"cartodbpositron"}

\* The keyword arguments of SpecMap: tiles, control_scale and zoom_start,
\* each passed or not.
MapKwargs ==
    {t @@ c @@ z :
        t \in {EmptyDict} \cup {("tiles" :> v) : v \in TileArgs},
        c \in {EmptyDict} \cup {("control_scale" :> v) : v \in BOOLEAN},
        z \in {EmptyDict, ("zoom_start" :> 10)}}

\* create_folium_map is about to be called.
InitMap ==
    /\ kwargs \in MapKwargs
    /\ the_map = NoMap
    /\ pc = "call"
    /\ figure = NoFigure /\ hr_zone = <<>> /\ new_regions = <<>>
    /\ NotReading

\* create_folium_map(**kwargs) returns the_map or raises.
CreateFoliumMap ==
    /\ pc = "call"
    /\ LET r == create_folium_map(kwargs) IN
       /\ the_map' = r.the_map
       /\ exc' = r.exc
       /\ pc' = IF r.exc = NoExc THEN "returned" ELSE "raised"
    /\ UNCHANGED <<raw, max_heart_rate, segment, warned, lib, gpx, yielded, gen,
                   kwargs, figure, hr_zone, new_regions>>

NextMap == CreateFoliumMap

SpecMap == InitMap /\ [][NextMap]_vars

-----------------------------------------------------------------------------
(* gpxplotter/mplplotting.py: plot_line and plot_filled. *)

\* RELABEL of common.py, lines 12-22.
RELABEL ==
    ("hr" :> "Heart rate / bpm")
    @@ ("distance" :> "Distance / m")
    @@ ("time" :> "Time")
    @@ ("elapsed-time" :> "Elapsed time")
    @@ ("elevation" :> "Elevation / m")
    @@ ("hr-zone-frac" :> "Fraction of maximum heart rate")
    @@ ("hr-zone-float" :> "Heart rate zone")
    @@ ("hr-zone" :> "Heart rate zone")
    @@ ("velocity-level" :> "Velocity (slower -> faster)")

\* RELABEL.get(var, var).
Label(var) == Get(RELABEL, var, var)

\* ZONE_COLORS_0, lines 17-23: the colours of the zones 1..5.
ZONE_COLORS_0 ==
    (1 :> "#ffffcc") @@ (2 :> "#a1dab4") @@ (3 :> "#41b6c4")
    @@ (4 :> "#2c7fb8") @@ (5 :> "#253494")

\* ZONE_COLORS, lines 31-34: the colours up to the cut and above it.
ZONE_COLORS == (0 :> "#bcbddc") @@ (1 :> "#9e9ac8")

\* The text of the warning of _keys_are_present for a key.
NotFound ==
    ("distance" :> "\"distance\" not found in the segment. Ending plot.")
    @@ ("elapsed-time" :> "\"elapsed-time\" not found in the segment. Ending plot.")
    @@ ("time" :> "\"time\" not found in the segment. Ending plot.")
    @@ ("elevation" :> "\"elevation\" not found in the segment. Ending plot.")
    @@ ("hr" :> "\"hr\" not found in the segment. Ending plot.")
    @@ ("hr-regions" :> "\"hr-regions\" not found in the segment. Ending plot.")
    @@ ("velocity-level" :> "\"velocity-level\" not found in the segment. Ending plot.")

\* _keys_are_present(data, *keys), lines 247-255: a key that is None is
\* skipped, every other key missing from data is warned about.
keys_are_present(data, keys) ==
    LET missing == {keys[i] : i \in 1..Len(keys)} \ ({None} \cup DOMAIN data)
    IN  [all_good |-> missing = {},
         warned   |-> {NotFound[key] : key \in missing}]

\* set_up_figure(track), lines 148-166: a new figure whose title is the
\* first name of the track, followed by its first type when it has one
\* (the title is kept as the list of its parts); no title without a name.
set_up_figure(track) ==
    LET track_name == IF "name" \in DOMAIN track /\ Len(track.name) > 0
                      THEN <<track.name[1]>> ELSE <<>>
        track_type == IF "type" \in DOMAIN track /\ Len(track.type) > 0
                      THEN <<track.type[1]>> ELSE <<>>
    IN  [made |-> TRUE,
         title |-> IF track_name = <<>> THEN <<>> ELSE track_name \o track_type,
         xlabel |-> "", ylabel |-> "",
         line |-> <<>>, fills |-> <<>>, legend |-> <<>>, collection |-> None]

\* What a plot function hands back: the exception, the warnings and the
\* figure (fig and ax1 are one record here).
Drawn(e, w, fig) == [exc |-> e, warned |-> w, figure |-> fig]

\* ax1.plot(xdata, ydata): the line; matplotlib raises ValueError when the
\* two differ in length.
AxPlot(fig, xdata, ydata) ==
    IF Len(xdata) # Len(ydata) THEN Drawn(Raise("ValueError", "ax1.plot"), {}, fig)
    ELSE Drawn(NoExc, {}, [fig EXCEPT !.line = <<[x |-> xdata, y |-> ydata]>>])

\* _update_time_ticklabels, lines 379-405, and fix_elapsed_time, lines
\* 408-432, as far as the labels of the axes go: _add_elapsed_labels names
\* an axis of elapsed times 'Time' (the ticks themselves are left out).
TimeLabels(fig, xvar, yvar, elapsed) ==
    [fig EXCEPT !.xlabel = IF xvar \in elapsed THEN "Time" ELSE @,
                !.ylabel = IF yvar \in elapsed THEN "Time" ELSE @]

\* The data drawn for a variable when a third variable colours the plot:
\* the elapsed time in place of the time.
PlotData(data, var) == IF var = "time" THEN data["elapsed-time"] ELSE data[var]

\* s[a:b] of Python for 0 <= a: the elements with 0-based index a..b-1.
Slice(s, a, b) == SubSeq(s, a + 1, IF b < Len(s) THEN b ELSE Len(s))

\* The smallest element of a non-empty sequence of numbers.
MinOf(s) == CHOOSE m \in {s[i] : i \in 1..Len(s)} : \A i \in 1..Len(s) : m <= s[i]

RECURSIVE AddRegions(_, _, _, _, _, _)
\* The loops of add_regions, lines 188-207, from the i-th region on, and the
\* legend.  cut is <<>> for None and <<c>> for a number c.  With cut=None
\* the colour of a region is ZONE_COLORS_0[zone], a KeyError for a zone that
\* is not a key; otherwise it is ZONE_COLORS[0] up to the cut and
\* ZONE_COLORS[1] above it.
AddRegions(fig, xdata, ydata, regions, cut, i) ==
    IF i > Len(regions)
    THEN Drawn(NoExc, {},
               [fig EXCEPT !.legend =
                   IF cut = <<>> THEN [z \in 1..5 |-> ZONE_COLORS_0[z]]
                   ELSE <<ZONE_COLORS[0], ZONE_COLORS[1]>>])
    ELSE LET reg  == regions[i]
             xpos == Slice(xdata, reg[1], reg[2] + 1)
             ypos == Slice(ydata, reg[1], reg[2] + 1)
             Fill(color) ==
                 [fig EXCEPT !.fills = Append(@,
                     [x |-> xpos, base |-> MinOf(ydata), y |-> ypos,
                      color |-> color])]
         IN  IF cut = <<>>
             THEN IF reg[3] \notin DOMAIN ZONE_COLORS_0
                  THEN Drawn(Raise("KeyError", "ZONE_COLORS_0"), {}, fig)
                  ELSE AddRegions(Fill(ZONE_COLORS_0[reg[3]]), xdata, ydata,
                                  regions, cut, i + 1)
             ELSE AddRegions(Fill(ZONE_COLORS[IF reg[3] <= cut[1] THEN 0 ELSE 1]),
                             xdata, ydata, regions, cut, i + 1)

\* add_regions(axi, xdata, ydata, regions, cut), lines 169-215.
add_regions(fig, xdata, ydata, regions, cut) ==
    AddRegions(fig, xdata, ydata, regions, cut, 1)

\* make_patches, lines 92-118, indexes xdata[i + 1] and ydata[i + 1] for
\* the first point and for every point that is not the last of xdata: an
\* IndexError when there is no such element.
MakePatchesRaises(xdata, ydata) ==
    LET n == IF Len(xdata) < Len(ydata) THEN Len(xdata) ELSE Len(ydata) IN
    \E i \in 0..(n - 1) :
        /\ i = 0 \/ i # Len(xdata) - 1
        /\ i + 1 >= Len(xdata) \/ i + 1 >= Len(ydata)

\* plot_line(track, data, xvar, yvar, zvar), lines 468-494.
plot_line(track, data, xvar, yvar, zvar) ==
    LET present == keys_are_present(data, <<xvar, yvar, zvar>>) IN
    IF ~present.all_good THEN Drawn(NoExc, present.warned, NoFigure)
    ELSE LET fig == [set_up_figure(track) EXCEPT !.xlabel = Label(xvar),
                                                 !.ylabel = Label(yvar)]
         IN  IF zvar = None
             THEN LET r == AxPlot(fig, data[xvar], data[yvar]) IN
                  IF r.exc # NoExc THEN r
                  ELSE Drawn(NoExc, {},
                             TimeLabels(r.figure, xvar, yvar, {"elapsed-time"}))
             ELSE LET xdata == PlotData(data, xvar)
                      ydata == PlotData(data, yvar)
                  IN  IF Len(xdata) # Len(ydata)
                      THEN Drawn(Raise("ValueError", "add_segmented_line"), {}, fig)
                      ELSE Drawn(NoExc, {},
                                 TimeLabels([fig EXCEPT !.collection = zvar],
                                            xvar, yvar, {"time", "elapsed-time"}))

\* plot_filled(track, data, xvar, yvar, zvar, cut), lines 532-564.
plot_filled(track, data, xvar, yvar, zvar, cut) ==
    LET present == keys_are_present(data, <<xvar, yvar, zvar>>) IN
    IF ~present.all_good THEN Drawn(NoExc, present.warned, NoFigure)
    ELSE IF zvar = None
    THEN Drawn(Raise("Exception", "_get_data"), {}, set_up_figure(track))
    ELSE LET fig == [set_up_figure(track) EXCEPT !.xlabel = Label(xvar),
                                                 !.ylabel = Label(yvar)]
             r   == AxPlot(fig, data[xvar], data[yvar])
         IN  IF r.exc # NoExc THEN r
             ELSE IF zvar = "hr-regions"
             THEN LET a == add_regions(r.figure, data[xvar], data[yvar],
                                       data[zvar], cut)
                  IN  IF a.exc # NoExc THEN a
                      ELSE Drawn(NoExc, {},
                                 TimeLabels(a.figure, xvar, yvar, {"elapsed-time"}))
             ELSE IF MakePatchesRaises(PlotData(data, xvar), PlotData(data, yvar))
             THEN Drawn(Raise("IndexError", "make_patches"), {}, r.figure)
             ELSE Drawn(NoExc, {},
                        TimeLabels([r.figure EXCEPT !.collection = zvar],
                                   xvar, yvar, {"time", "elapsed-time"}))

-----------------------------------------------------------------------------
(* gpxplotter/folium_map.py: add_segment_to_map. *)

\* What a map function leaves behind: the exception and the map, which it
\* changes in place.
Mapped(e, m) == [exc |-> e, the_map |-> m]

\* add_marker_at(the_map, segment, index, tooltip), lines 184-199, for the
\* 1-based position pos: the popup text needs segment['time'].
add_marker_at(m, seg, pos, tooltip) ==
    IF "time" \notin DOMAIN seg THEN Mapped(Raise("KeyError", "segment['time']"), m)
    ELSE IF Len(seg["time"]) = 0
    THEN Mapped(Raise("IndexError", "segment['time'][index]"), m)
    ELSE Mapped(NoExc,
                add_child(m, [kind |-> "Marker", location |-> seg["latlon"][pos],
                              tooltip |-> tooltip], None))

\* add_start_top_markers, lines 213-214: a marker at index 0 and one at -1.
add_start_top_markers(m, seg) ==
    LET start == add_marker_at(m, seg, 1, "Start") IN
    IF start.exc # NoExc THEN start
    ELSE add_marker_at(start.the_map, seg, Len(seg["latlon"]), "End")

\* add_colored_line, lines 293-319, with the default cmap and no min_value
\* or max_value: zdata = segment[color_by], the colours are the means of
\* neighbouring values (min() of none of them is a ValueError), the line
\* and its colour map become children of the map.
add_colored_line(m, seg, color_by) ==
    IF color_by \notin DOMAIN seg
    THEN Mapped(Raise("KeyError", "segment[color_by]"), m)
    ELSE IF Len(seg[color_by]) < 2 THEN Mapped(Raise("ValueError", "min(avg)"), m)
    ELSE Mapped(NoExc,
                add_child(
                    add_child(m, [kind |-> "ColorLine",
                                  positions |-> seg["latlon"],
                                  colors |-> Len(seg[color_by]) - 1], None),
                    [kind |-> "ColorMap", caption |-> Label(color_by)], None))

\* add_segment_to_map(the_map, segment, color_by, fit_bounds, add_start_end),
\* lines 251-265.
add_segment_to_map(m, seg, color_by, fit_bounds, add_start_end) ==
    LET line == IF color_by = None
                THEN Mapped(NoExc,
                            add_child(m, [kind |-> "PolyLine",
                                          positions |-> seg["latlon"]], None))
                ELSE add_colored_line(m, seg, color_by)
        ends == IF line.exc # NoExc \/ ~add_start_end THEN line
                ELSE add_start_top_markers(line.the_map, seg)
    IN  IF ends.exc # NoExc \/ ~fit_bounds THEN ends
        ELSE Mapped(NoExc, add_child(ends.the_map, [kind |-> "FitBounds"], None))

-----------------------------------------------------------------------------
(* Drawing a processed segment. *)

\* Longest segment of SpecRender.
MaxRenderPts == 3

\* The heart rates of SpecRender: with max_heart_rate = 200 they are in the
\* zones 0, 3 and 4.
RenderHr == {90, 150, 190}

\* The i-th point of a segment of SpecRender: position and time follow i,
\* and it has the elements named in fields.
RenderPoint(i, fields, h) ==
    TrackPoint(Text("float", 60000 + i), Text("float", 10000),
               IF "elevation" \in fields
               THEN Element(<<Text("float", 100 + 5 * i)>>) ELSE NoElement,
               IF "time" \in fields
               THEN Element(<<Text("date", 10 * i)>>) ELSE NoElement,
               IF "hr" \in fields
               THEN Element(<<Text("int", h)>>) ELSE NoElement,
               NoElement)

\* The segments of SpecRender: 1..MaxRenderPts points that all have the
\* same elements, any of elevation, time and hr.
RenderSegments ==
    {[i \in 1..n |-> RenderPoint(i, fields, hrs[i])] :
        n \in 1..MaxRenderPts, fields \in SUBSET {"elevation", "time", "hr"},
        hrs \in [1..MaxRenderPts -> RenderHr]}

\* The track records handed to the plot functions: with name and type, and
\* with neither.
RenderTracks ==
    {[name |-> <<"A">>, type |-> <<"running">>], [name |-> <<>>, type |-> <<>>]}

InitRender == Start(RenderSegments, {200})

\* The call of a drawing function ends: its arguments, what it raised.
Called(fn, args, e) ==
    /\ pc' = fn
    /\ kwargs' = args
    /\ exc' = e

\* plot_line(track, segment, xvar=..., yvar=..., zvar=...) on a processed
\* segment.
PlotLine ==
    /\ pc = "processed"
    /\ \E track \in RenderTracks, xvar \in {"distance", "elapsed-time", "time"},
          yvar \in {"elevation", "hr"}, zvar \in {None, "hr", "velocity-level"} :
          LET r == plot_line(track, segment, xvar, yvar, zvar) IN
          /\ Called("plot_line",
                    [track |-> track, xvar |-> xvar, yvar |-> yvar, zvar |-> zvar],
                    r.exc)
          /\ warned' = warned \cup r.warned
          /\ figure' = r.figure
    /\ UNCHANGED <<raw, max_heart_rate, segment, lib, gpx, yielded, gen, the_map,
                   hr_zone, new_regions>>

\* plot_filled(track, segment, xvar=..., yvar=..., zvar=..., cut=...) on a
\* processed segment.
PlotFilled ==
    /\ pc = "processed"
    /\ \E track \in RenderTracks, xvar \in {"distance", "elapsed-time", "time"},
          yvar \in {"elevation", "hr"}, zvar \in {None, "hr", "hr-regions"},
          cut \in {<<>>, <<3>>} :
          LET r == plot_filled(track, segment, xvar, yvar, zvar, cut) IN
          /\ Called("plot_filled",
                    [track |-> track, xvar |-> xvar, yvar |-> yvar, zvar |-> zvar,
                     cut |-> cut],
                    r.exc)
          /\ warned' = warned \cup r.warned
          /\ figure' = r.figure
    /\ UNCHANGED <<raw, max_heart_rate, segment, lib, gpx, yielded, gen, the_map,
                   hr_zone, new_regions>>

\* add_segment_to_map(the_map, segment, color_by=..., fit_bounds=...,
\* add_start_end=...) on a processed segment and a map fresh from
\* create_folium_map().
AddSegmentToMap ==
    /\ pc = "processed"
    /\ \E color_by \in {None, "hr", "elevation", "hr-zone-float"},
          fit_bounds \in BOOLEAN, add_start_end \in BOOLEAN :
          LET r == add_segment_to_map(create_folium_map(EmptyDict).the_map,
                                      segment, color_by, fit_bounds, add_start_end)
          IN  /\ Called("add_segment_to_map",
                        [color_by |-> color_by, fit_bounds |-> fit_bounds,
                         add_start_end |-> add_start_end],
                        r.exc)
              /\ the_map' = r.the_map
    /\ UNCHANGED <<raw, max_heart_rate, segment, warned, lib, gpx, yielded, gen,
                   figure, hr_zone, new_regions>>

NextRender ==
    ReadSegment \/ ProcessSegment \/ PlotLine \/ PlotFilled \/ AddSegmentToMap

SpecRender == InitRender /\ [][NextRender]_vars

-----------------------------------------------------------------------------
(* The claims. *)

Has(k) == k \in DOMAIN segment

\* The segment has non-empty heart-rate zones and regions to look at.
HasRegions == pc = "processed" /\ Has("hr-regions") /\ Len(segment["hr-zone"]) > 0

\* The regions whose index range [start_index, end_index] holds index k.
RegionsAt(k) ==
    {i \in 1..Len(segment["hr-regions"]) :
        segment["hr-regions"][i][1] <= k /\ k <= segment["hr-regions"][i][2]}

\* C1: for a non-empty hr-zone array the inclusive index ranges of
\* hr-regions cover 0..len-1 without gaps and without overlaps: the first
\* region starts at 0, the last ends at len-1, and every index lies in
\* exactly one region.
C1_RegionsPartitionIndices ==
    HasRegions =>
        LET regs == segment["hr-regions"]
            n    == Len(segment["hr-zone"])
        IN  /\ regs[1][1] = 0
            /\ Last(regs)[2] = n - 1
            /\ \A k \in 0..(n - 1) : Cardinality(RegionsAt(k)) = 1

\* C2: for every region [start_index, end_index, value] the zone at every
\* index from start_index to end_index, both included, is value.
C2_RegionValueHoldsOnRange ==
    HasRegions =>
        \A i \in 1..Len(segment["hr-regions"]) :
            LET reg == segment["hr-regions"][i] IN
            \A k \in reg[1]..reg[2] : segment["hr-zone"][k + 1] = reg[3]

\* The sum of the gallery's consistency check (plot_006_heart_rate_bar.py,
\* lines 26-31): time[stop] - time[start] added up over the regions.  The
\* script takes .seconds of each difference, which is the difference itself
\* for time stamps that increase within a day.
RECURSIVE TimeInRegions(_, _)
TimeInRegions(regions, time) ==
    IF regions = <<>> THEN 0
    ELSE (time[Head(regions)[2] + 1] - time[Head(regions)[1] + 1])
         + TimeInRegions(Tail(regions), time)

\* C3: the times spent in the regions add up to the duration of the
\* segment: the sum of time[stop] - time[start] over hr-regions is
\* time[last] - time[first].
C3_RegionTimesAddUp ==
    (HasRegions /\ Has("time")) =>
        TimeInRegions(segment["hr-regions"], segment["time"])
            = Last(segment["time"]) - segment["time"][1]

\* C3, witness: a processed segment with several regions and time stamps
\* that differ.
C3_Witness ==
    /\ HasRegions /\ Has("time")
    /\ Len(segment["hr-regions"]) >= 3
    /\ Last(segment["time"]) # segment["time"][1]

\* The scenario of C4: (60.0, 10.0, t=0s), (60.001, 10.0, t=10s),
\* (60.002, 10.0, t=20s) with heart rates 100, 150, 180 and
\* max_heart_rate = 200.
Scenario ==
    /\ raw = <<HrPoint(0, 100), HrPoint(10, 150), HrPoint(20, 180)>>
    /\ max_heart_rate = 200

C5_ZonesClosedOnTheLeft ==
    (pc = "processed" /\ Has("hr")) =>
        \A i \in 1..Len(segment["hr"]) :
            LET hrate == segment["hr"][i]
                zone  == segment["hr-zone"][i]
            IN  /\ zone \in 0..5
                /\ zone >= 1 => (4 + zone) * max_heart_rate <= 10 * hrate
                /\ zone <= 4 => 10 * hrate < (5 + zone) * max_heart_rate
                /\ max_heart_rate = 200 =>
                      /\ hrate = 100 => zone = 1
                      /\ hrate = 0 => zone = 0
                      /\ hrate = max_heart_rate => zone = 5

\* C5, witness: a processed segment with the heart rates 0, 100 and 200
\* under max_heart_rate = 200.
C5_Witness ==
    /\ pc = "processed" /\ Has("hr-zone") /\ max_heart_rate = 200
    /\ {0, 100, 200} \subseteq {segment["hr"][i] : i \in 1..Len(segment["hr"])}

\* The points of the raw segment that get_point_data can extract.
Extractable(point) == ~get_point_data(point).raised

\* C6: a point without lat or lon, or with a field that does not convert,
\* is dropped: read_segment raises nothing and keeps the other points in
\* their order.
C6_BadPointIsDropped ==
    pc # "raw" =>
        /\ exc.site # "get_point_data"
        /\ pc = "assembled" =>
              segment = read_segment(SelectSeq(raw, Extractable)).data

\* C7: a segment without points is read and processed without an
\* exception, and its sequences are empty.
C7_EmptySegmentIsProcessed ==
    (raw = <<>> /\ pc \notin {"raw", "assembled"}) =>
        /\ pc = "processed"
        /\ \A k \in DOMAIN segment \cap {"lat", "lon", "latlon", "distance"} :
              segment[k] = <<>>

\* The array-valued keys of a segment.
ArrayKeys ==
    {"lat", "lon", "elevation", "time", "hr", "cad", "temp", "latlon",
     "distance", "elapsed-time", "velocity", "pace", "velocity-level",
     "hr-zone", "hr-zone-float", "hr-zone-frac"}

\* C8: all arrays of a segment have the length of lat, the number of
\* retained points.
C8_ArraysHaveOneLength ==
    pc \in {"assembled", "processed"} =>
        \A k \in DOMAIN segment \cap ArrayKeys :
            Len(segment[k]) = Len(segment["lat"])

\* C9: when the spline fit raises, the error is caught and warned about,
\* velocity, pace and velocity-level stay absent, the distance is there, and
\* the heart-rate and elevation fields of the segment are computed; the
\* exception does not leave process_segment (what can still raise after it
\* is the integration of the heart rate over arrays of unequal length).
C9_SplineFailureIsCaught ==
    lib.spline = "raised" =>
        /\ "Estimating velocities failed" \in warned
        /\ ~Has("velocity") /\ ~Has("pace") /\ ~Has("velocity-level")
        /\ Has("distance") /\ Len(segment["distance"]) = Len(segment["lat"])
        /\ pc = "raised" => exc = Raise("ValueError", "np.trapz")
        /\ pc = "processed" =>
              /\ Has("hr") => Has("hr-zone") /\ Has("hr-regions") /\ Has("average-hr")
              /\ Has("elevation") => Has("elevation-up") /\ Has("elevation-down")

\* C9, witness: the fit raised on a segment with heart rates and
\* elevations, and the segment was processed.
C9_Witness ==
    /\ lib.spline = "raised" /\ pc = "processed"
    /\ Has("hr-zone") /\ Has("elevation-up")

\* C10: on a segment that is read, nothing but the failure of vincenty to
\* converge leaves process_segment.  Stated for the segments made of
\* complete points only, one at least.
C10_OnlyVincentyPropagates ==
    (/\ pc = "raised"
     /\ Len(raw) >= 1
     /\ \A i \in 1..Len(raw) : raw[i] \in BasePoints)
        => exc.site = "vincenty"

\* C11 as amended: no element of a velocity array is negative: where the
\* derivative of the spline is negative the velocity is 0, elsewhere it is
\* the derivative, so that every element is >= 0 or nan.
C11_VelocityIsNeverNegative ==
    Has("velocity") =>
        /\ Len(segment["velocity"]) = Len(lib.deriv)
        /\ \A i \in 1..Len(lib.deriv) :
              LET d == lib.deriv[i]
                  v == segment["velocity"][i]
              IN  /\ (~d.nan /\ d.val < 0) => v = F(0)
                  /\ ~(~d.nan /\ d.val < 0) => v = d
                  /\ v.nan \/ v.val >= 0

\* C11, witness: a velocity array stored after a derivative with a negative
\* value.
C11_Witness ==
    /\ Has("velocity")
    /\ \E i \in 1..Len(lib.deriv) : ~lib.deriv[i].nan /\ lib.deriv[i].val < 0

\* C11 as claimed: every element of a velocity array is a number >= 0.
C11_VelocityIsNonNegative ==
    Has("velocity") =>
        \A i \in 1..Len(segment["velocity"]) :
            ~segment["velocity"][i].nan /\ segment["velocity"][i].val >= 0

\* C12: whenever velocity is set, pace is set with the same length;
\* pace[i] = 1 / ((60/1000) * velocity[i]) where velocity[i] > 0 and 0 where
\* velocity[i] is zero; nothing is divided by zero.
C12_PaceOfVelocity ==
    Has("velocity") =>
        /\ Has("pace")
        /\ Len(segment["pace"]) = Len(segment["velocity"])
        /\ \A i \in 1..Len(segment["velocity"]) :
              LET v == segment["velocity"][i]
                  p == segment["pace"][i]
              IN  /\ p.den # 0
                  /\ (~v.nan /\ v.val > 0) => p.num * 60 * v.val = 1000 * p.den
                  /\ (~v.nan /\ v.val = 0) => p.num = 0

\* C12, witness: a pace array over velocities of which one is zero and one
\* is positive.
C12_Witness ==
    /\ Has("pace")
    /\ \E i \in 1..Len(segment["velocity"]) : segment["velocity"][i] = F(0)
    /\ \E i \in 1..Len(segment["velocity"]) :
          ~segment["velocity"][i].nan /\ segment["velocity"][i].val > 0

\* C13: the level of a sample is the rank of the center of its cluster among
\* the centers (0 for the lowest, n_clusters - 1 for the highest); clusters
\* keep apart, and of two samples in different clusters the one with the
\* lower velocity has the lower level.
C13_LevelsRankTheCenters ==
    Has("velocity-level") =>
        LET lev    == segment["velocity-level"]
            vel    == segment["velocity"]
            center(i) == lib.centers[lib.labels[i]]
            Below(x) == Cardinality({c \in DOMAIN lib.centers : lib.centers[c] < x})
            UpTo(x)  == Cardinality({c \in DOMAIN lib.centers : lib.centers[c] <= x})
        IN  /\ Len(lev) = Len(vel)
            /\ \A i \in 1..Len(lev) :
                  /\ lev[i] \in 0..(N_CLUSTERS - 1)
                  /\ Below(center(i)) <= lev[i]
                  /\ lev[i] <= UpTo(center(i)) - 1
            /\ \A i, j \in 1..Len(lev) :
                  /\ (lib.labels[i] = lib.labels[j]) <=> (lev[i] = lev[j])
                  /\ (lib.labels[i] # lib.labels[j] /\ vel[i].val < vel[j].val)
                        => lev[i] < lev[j]

\* C13, witness: levels over a fit of KMeans that numbered a faster cluster
\* below a slower one.
C13_Witness ==
    /\ Has("velocity-level")
    /\ \E i, j \in 1..Len(lib.labels) :
          /\ segment["velocity"][i].val < segment["velocity"][j].val
          /\ lib.labels[i] > lib.labels[j]

\* C14: a derived key is present only if its source fields are: without hr
\* none of hr-zone, hr-zone-float, hr-zone-frac, hr-regions, average-hr;
\* without time none of elapsed-time, velocity, pace, velocity-level,
\* average-hr; without elevation neither elevation-up nor elevation-down;
\* velocity-level only with velocity and pace.  An absent source field
\* causes no warning.
C14_DerivedKeysNeedTheirSources ==
    /\ ~Has("hr") =>
          \A k \in {"hr-zone", "hr-zone-float", "hr-zone-frac", "hr-regions",
                    "average-hr"} : ~Has(k)
    /\ ~Has("time") =>
          /\ \A k \in {"elapsed-time", "velocity", "pace", "velocity-level",
                       "average-hr"} : ~Has(k)
          /\ warned = {}
    /\ ~Has("elevation") => ~Has("elevation-up") /\ ~Has("elevation-down")
    /\ Has("velocity-level") => Has("velocity") /\ Has("pace")
    /\ warned # {} => lib.spline # "none"

\* C14, witness: a processed segment of several points that have neither
\* heart rate nor time nor elevation.
C14_Witness ==
    /\ pc = "processed" /\ Len(segment["lat"]) >= 2
    /\ ~Has("hr") /\ ~Has("time") /\ ~Has("elevation")

\* C15: distance has the length of lat, distance[0] = 0, distance[i] =
\* distance[i-1] + the vincenty distance between point i-1 and point i for
\* every i >= 1, and distance does not decrease.
C15_DistanceIsCumulative ==
    Has("distance") =>
        LET d  == segment["distance"]
            pt(i) == <<segment["lat"][i], segment["lon"][i]>>
        IN  /\ Len(d) = Len(segment["lat"])
            /\ Len(d) >= 1 => d[1] = 0
            /\ \A i \in 2..Len(d) :
                  /\ ~vincenty(pt(i - 1), pt(i)).raised
                  /\ d[i] = d[i - 1] + vincenty(pt(i - 1), pt(i)).dist
                  /\ d[i] >= d[i - 1]

\* C15, witness: the distances of a processed segment with a leg of
\* positive length after a leg of positive length, and a leg of length 0.
C15_Witness ==
    /\ pc = "processed" /\ Has("distance")
    /\ \E i \in 3..Len(segment["distance"]) :
          /\ segment["distance"][i] > segment["distance"][i - 1]
          /\ segment["distance"][i - 1] > segment["distance"][i - 2]
    /\ \E i \in 2..Len(segment["distance"]) :
          segment["distance"][i] = segment["distance"][i - 1]

\* The points of the k-th call of vincenty made by get_distances:
\* vincenty(point k+1, point k).
CallPoint(i) == <<segment["lat"][i], segment["lon"][i]>>

C17_VincentyStopsOrRaises ==
    /\ \A k \in 1..Len(lib.vincenty) :
          LET call == lib.vincenty[k] IN
          /\ call.updates <= MAXITR
          /\ call.raised <=> (~call.converged /\ call.updates = MAXITR)
          /\ ~call.raised =>
                \/ call.converged
                \/ CallPoint(k) = CallPoint(k + 1) /\ call.dist = 0
          /\ call.raised =>
                /\ k = Len(lib.vincenty)
                /\ pc = "raised" /\ exc = Raise("ValueError", "vincenty")
                /\ ~Has("distance")
    /\ exc.site = "vincenty" =>
          lib.vincenty # <<>> /\ Last(lib.vincenty).raised

\* C17, witness: the exception of vincenty left process_segment after legs
\* on which the iteration converged.
C17_Witness ==
    /\ pc = "raised" /\ exc = Raise("ValueError", "vincenty")
    /\ Len(lib.vincenty) >= 2
    /\ lib.vincenty[1].converged
    /\ Last(lib.vincenty).updates = MAXITR

\* The sum of f over the finite set S.
RECURSIVE SumOver(_, _)
SumOver(f, S) ==
    IF S = {} THEN 0
    ELSE LET x == CHOOSE y \in S : TRUE IN f[x] + SumOver(f, S \ {x})

\* C19: average-hr is the trapezoidal integral of hr over elapsed-time
\* divided by elapsed-time[last] - elapsed-time[first]; for a constant heart
\* rate h over a positive duration it is h.  A segment with hr and time has
\* it.
C19_AverageHrIsTimeWeighted ==
    (pc = "processed" /\ Has("hr") /\ Has("time")) =>
        /\ Has("average-hr")
        /\ LET hr    == segment["hr"]
               et    == segment["elapsed-time"]
               avg   == segment["average-hr"]
               dur   == Last(et) - et[1]
               twice == SumOver([i \in 1..(Len(et) - 1) |->
                                    (et[i + 1] - et[i]) * (hr[i + 1] + hr[i])],
                                1..(Len(et) - 1))
           IN  /\ avg.num * 2 * dur = twice * avg.den
               /\ avg.den = 0 <=> dur = 0
               /\ (dur > 0 /\ \A i \in 1..Len(hr) : hr[i] = hr[1])
                     => avg.num = hr[1] * avg.den

\* C19, witness: the average over three points with heart rates that differ
\* and a positive duration.
C19_Witness ==
    /\ pc = "processed" /\ Has("average-hr")
    /\ Len(segment["hr"]) = 3
    /\ Last(segment["elapsed-time"]) > 0
    /\ segment["hr"][1] # segment["hr"][2]
    /\ segment["hr"][2] # segment["hr"][3]

\* C20: elevation-up is the sum of the positive differences of consecutive
\* elevations, elevation-down the sum of the negative ones, so that
\* elevation-up >= 0 and elevation-down <= 0; differences of zero add to
\* neither (the two sums add up to the last elevation minus the first).
C20_ClimbAndDescent ==
    (pc = "processed" /\ Has("elevation")) =>
        /\ Has("elevation-up") /\ Has("elevation-down")
        /\ LET ele   == segment["elevation"]
               steps == 1..(Len(ele) - 1)
               diff  == [i \in steps |-> ele[i + 1] - ele[i]]
               up    == segment["elevation-up"]
               down  == segment["elevation-down"]
           IN  /\ up = SumOver(diff, {i \in steps : diff[i] > 0})
               /\ down = SumOver(diff, {i \in steps : diff[i] < 0})
               /\ up >= 0 /\ down <= 0
               /\ Len(ele) >= 1 => up + down = Last(ele) - ele[1]
               /\ (\A i \in steps : diff[i] = 0) => up = 0 /\ down = 0

\* C20, witness: a processed segment that climbs, descends and stays level.
C20_Witness ==
    /\ pc = "processed" /\ Has("elevation-up")
    /\ LET ele == segment["elevation"] IN
       /\ \E i \in 1..(Len(ele) - 1) : ele[i + 1] > ele[i]
       /\ \E i \in 1..(Len(ele) - 1) : ele[i + 1] < ele[i]
       /\ \E i \in 1..(Len(ele) - 1) : ele[i + 1] = ele[i]

\* C18: read_gpx_file yields one track record per <trk>, in document order,
\* and then finishes; each record has name, type and segments, with one
\* segment per <trkseg> in document order, and every segment has been
\* assembled by read_segment and processed by process_segment before its
\* track is yielded.
C18_OneRecordPerTrack ==
    /\ Len(yielded) <= Len(gpx)
    /\ gen = "finished" => Len(yielded) = Len(gpx)
    /\ \A i \in 1..Len(yielded) :
          LET track_data == yielded[i]
              track      == gpx[i]
          IN  /\ DOMAIN track_data = {"name", "type", "segments"}
              /\ track_data.name = track.name
              /\ track_data.type = track.type
              /\ Len(track_data.segments) = Len(track.trksegs)
              /\ \A j \in 1..Len(track.trksegs) :
                    LET seg  == track_data.segments[j]
                        read == read_segment(track.trksegs[j]).data
                    IN  /\ \A k \in DOMAIN read :
                              k \in DOMAIN seg /\ seg[k] = read[k]
                        /\ "latlon" \in DOMAIN seg
                        /\ "distance" \in DOMAIN seg
                        /\ Len(seg["distance"]) = Len(read["lat"])

\* C18, witness: the generator has finished after two tracks of different
\* names, the first with two segments of different lengths.
C18_Witness ==
    /\ gen = "finished" /\ Len(yielded) = 2
    /\ yielded[1].name # yielded[2].name
    /\ Len(yielded[1].segments) = 2
    /\ Len(yielded[1].segments[1]["lat"]) # Len(yielded[1].segments[2]["lat"])

\* The limits of zone z in tenths of a beat per minute: zone 0 is
\* [0, 0.5 max), zone z >= 1 is [(0.4 + z/10) max, (0.5 + z/10) max).
ZoneLeft(z) == IF z = 0 THEN 0 ELSE (4 + z) * max_heart_rate

ZoneRight(z) == (5 + z) * max_heart_rate

\* C23: for every sample hr-zone-float = hr-zone + (hr - left) / (right - left)
\* with [left, right) the limits of the assigned zone, and hr-zone-frac =
\* hr / max_heart_rate; hr-zone <= hr-zone-float < hr-zone + 1 holds for
\* every heart rate with 0 <= hr < max_heart_rate, and a heart rate at or
\* above max_heart_rate is in zone 5 with hr-zone-float >= 6.
C23_ZoneFloatInterpolates ==
    (pc = "processed" /\ Has("hr")) =>
        /\ Has("hr-zone-float") /\ Has("hr-zone-frac")
        /\ \A i \in 1..Len(segment["hr"]) :
              LET hrate == segment["hr"][i]
                  zone  == segment["hr-zone"][i]
                  zf    == segment["hr-zone-float"][i]
                  frac  == segment["hr-zone-frac"][i]
                  width == ZoneRight(zone) - ZoneLeft(zone)
              IN  /\ zf.den > 0
                  /\ zf.num * width =
                        zf.den * (zone * width + (10 * hrate - ZoneLeft(zone)))
                  /\ (0 <= hrate /\ hrate < max_heart_rate) =>
                        zone * zf.den <= zf.num /\ zf.num < (zone + 1) * zf.den
                  /\ hrate >= max_heart_rate =>
                        zone = 5 /\ zf.num >= 6 * zf.den
                  /\ frac.den > 0
                  /\ frac.num * max_heart_rate = hrate * frac.den

\* C23, witness: a processed segment with a heart rate inside a zone (150 of
\* 200: zone 3, position 3.5) and one at max_heart_rate.
C23_Witness ==
    /\ pc = "processed" /\ Has("hr-zone-float")
    /\ \E i \in 1..Len(segment["hr"]) :
          /\ segment["hr"][i] = 150
          /\ 2 * segment["hr-zone-float"][i].num = 7 * segment["hr-zone-float"][i].den
    /\ \E i \in 1..Len(segment["hr"]) : segment["hr"][i] = max_heart_rate

\* C23 as stated: hr-zone <= hr-zone-float < hr-zone + 1 for every heart-rate
\* value.
C23_ZoneFloatInsideItsZone ==
    (pc = "processed" /\ Has("hr-zone-float")) =>
        \A i \in 1..Len(segment["hr"]) :
            LET zone == segment["hr-zone"][i]
                zf   == segment["hr-zone-float"][i]
            IN  /\ zf.den > 0
                /\ zone * zf.den <= zf.num
                /\ zf.num < (zone + 1) * zf.den

\* The stored velocity array holds a NaN.
VelocityHasNaN ==
    Has("velocity") /\ \E i \in 1..Len(segment["velocity"]) : segment["velocity"][i].nan

\* C24: when a velocity sample is NaN, cluster_velocities warns and returns
\* None without calling KMeans, and get_velocity leaves 'velocity-level'
\* absent while 'velocity' and 'pace' are set, whatever the later steps of
\* process_segment do.
C24_NaNSkipsClustering ==
    (pc \in {"processed", "raised"} /\ VelocityHasNaN) =>
        /\ "Some velocities are NaN, skipping clustering" \in warned
        /\ lib.kmeans = "none"
        /\ exc.site # "KMeans"
        /\ ~Has("velocity-level")
        /\ Has("pace")
        /\ Len(segment["pace"]) = Len(segment["velocity"])

\* C24, witness: a processed segment of at least n_clusters points, enough
\* for KMeans, whose velocity holds a NaN and a number.
C24_Witness ==
    /\ pc = "processed" /\ VelocityHasNaN
    /\ Len(segment["velocity"]) >= N_CLUSTERS
    /\ \E i \in 1..Len(segment["velocity"]) : ~segment["velocity"][i].nan

\* C25: whenever get_velocity calls cluster_velocities on velocities without
\* NaN (the spline fit succeeded), there are at least n_clusters velocity
\* samples, so KMeans is never asked for more clusters than samples.
C25_ClusteringHasEnoughSamples ==
    (pc \in {"processed", "raised"} /\ lib.spline = "ok"
        /\ Has("velocity") /\ ~VelocityHasNaN) =>
        /\ Len(segment["velocity"]) >= N_CLUSTERS
        /\ lib.kmeans = "ok"

\* C26: whenever process_segment assigns 'average-hr', the divisor
\* elapsed-time[last] - elapsed-time[first] is not zero, also for a
\* single-point segment and for equal first and last time stamps.
C26_AverageHrDivisorNonZero ==
    (pc = "processed" /\ Has("average-hr")) =>
        /\ Last(segment["elapsed-time"]) - segment["elapsed-time"][1] # 0
        /\ segment["average-hr"].den # 0

C30_WitnessOnePoint ==
    pc = "processed" /\ Has("elevation-up") /\ Len(segment["elevation"]) = 1

C27_WitnessEmpty ==
    pc = "returned" /\ hr_zone = <<>>

\* C22: create_folium_map(**kwargs) returns a map object for every value of
\* the tiles argument; control_scale is True unless the caller passes it;
\* when tiles is a key of TILES the map is created with tiles=None and that
\* tile layer is added as a child; when tiles is None or one of
\* 'openstreetmap'/'stamenterrain' the kwargs are passed through unchanged.
C22_MapForEveryTiles ==
    pc \in {"returned", "raised"} =>
        LET tiles    == Get(kwargs, "tiles", None)
            expected == SetItem(kwargs, "control_scale",
                                Get(kwargs, "control_scale", TRUE))
        IN  /\ pc = "returned" /\ exc = NoExc /\ the_map.built
            /\ the_map.kwargs["control_scale"] = expected["control_scale"]
            /\ (tiles # None /\ tiles \in DOMAIN TILES) =>
                  /\ the_map.kwargs = SetItem(expected, "tiles", None)
                  /\ Len(the_map.children) = 1
                  /\ the_map.children[1].name = TILES[tiles].name
            /\ (tiles = None \/ tiles \in FOLIUM_TILES) =>
                  /\ the_map.kwargs = expected
                  /\ the_map.children = <<>>

\* The keys among the arguments xvar, yvar and zvar of the plot call that
\* are missing from the segment.
MissingPlotKeys ==
    {kwargs.xvar, kwargs.yvar, kwargs.zvar} \ ({None} \cup DOMAIN segment)

\* C21: the rendering functions treat a key missing from the segment as
\* 'feature not available' instead of raising: plot_line and plot_filled
\* return (None, None) after a warning when xvar, yvar or zvar is missing,
\* and add_segment_to_map does not raise when the color_by key or the
\* 'time' key is absent from the segment.
C21_RenderersDegradeGracefully ==
    /\ (pc \in {"plot_line", "plot_filled"} /\ MissingPlotKeys # {}) =>
          /\ exc = NoExc
          /\ figure = NoFigure
          /\ \A key \in MissingPlotKeys : NotFound[key] \in warned
    /\ (pc = "add_segment_to_map"
          /\ \/ kwargs.color_by \notin {None} \cup DOMAIN segment
             \/ ~Has("time")) =>
          exc.type # "KeyError"

\* C29: plot_filled with zvar='hr-regions' and cut=None colours every
\* region update_hr_zones can produce: every zone value in hr-regions has a
\* colour in ZONE_COLORS_0, so add_regions does not fail on a zone value.
C29_EveryZoneHasAColour ==
    (pc = "plot_filled" /\ kwargs.zvar = "hr-regions" /\ kwargs.cut = <<>>
        /\ MissingPlotKeys = {}) =>
        /\ \A i \in 1..Len(segment["hr-regions"]) :
              segment["hr-regions"][i][3] \in DOMAIN ZONE_COLORS_0
        /\ exc.site # "ZONE_COLORS_0"

\* C28: read_gpx_file is lazy and forward-only.  Nothing is parsed before
\* the first item is requested; each request processes one track, so the
\* list of delivered tracks grows by one track at its end or not at all;
\* when processing track k raises, the tracks 0..k-1 stay delivered as they
\* were, the exception reaches the caller at that request, and the iterator
\* yields no track afterwards.
C28_LazyAndForwardOnly ==
    /\ [](gen = "created" => yielded = <<>> /\ warned = {} /\ exc = NoExc)
    /\ [](exc # NoExc => gen \in {"raised", "closed"} /\ Len(yielded) < Len(gpx))
    /\ [][/\ \/ yielded' = yielded
             \/ /\ Len(yielded') = Len(yielded) + 1
                /\ SubSeq(yielded', 1, Len(yielded)) = yielded
          /\ (gen' = "raised" /\ gen # "raised") =>
                yielded' = yielded /\ exc' # NoExc
          /\ gen \in {"raised", "closed", "finished"} =>
                /\ yielded' = yielded
                /\ gen' \in {"raised", "closed", "finished"}]_vars

\* C28, witness: the second track of a file raised after the first had been
\* delivered, and a further request ended with StopIteration.
C28_Witness ==
    /\ gen = "closed" /\ exc # NoExc
    /\ Len(gpx) = 2 /\ Len(yielded) = 1
    /\ Len(yielded[1].segments) = 2

=============================================================================
